---- MODULE Spec2Model ----
(***************************************************************************)
(* EasyInterview: the speech layer (hooks/useSpeech.ts).                   *)
(*                                                                         *)
(* Text is modelled as a sequence of one-character strings, so that the    *)
(* separators, trims and word splits of the code are computed and not      *)
(* assumed.                                                                *)
(*                                                                         *)
(* Specifications:                                                         *)
(*   Spec          - the capture controller and the recognition engine     *)
(*   SpecWatchdog  - the capture controller with the clock and the         *)
(*                   keepalive interval                                    *)
(*   SpecPlayback  - the playback controller and the speech-output engine  *)
(*   SpecStitch    - the pure helper stitchText, applied to bounded inputs *)
(*   SpecInterview - the interview step composing capture and playback     *)
(***************************************************************************)
EXTENDS Naturals, Integers, Sequences, FiniteSets, TLC

VARIABLES
  (* capture controller: React state and refs of useSpeech *)
  isListening,            \* useState(false)
  transcript,             \* useState('')
  finalTranscriptRef,     \* committed text
  interimTranscriptRef,   \* pending interim text
  isManuallyStoppedRef,   \* manual-stop intent
  retryTimers,            \* pending setTimeout(..., 100) callbacks of onend
  recognitionStartTimeRef, \* keepalive: Date.now() of the last onstart
  lastSpeechTimestampRef, \* keepalive: Date.now() of the last onstart/onresult
  keepaliveDue,           \* the time the keepalive interval fires next
  engineCall,             \* the recognition method the last step called:
                          \* "none" | "start" | "stop"
  startRequestedAt,       \* the time of the last start() the engine accepted
  now,                    \* Date.now()
  ticks,                  \* clock advances so far
  (* recognition engine (the browser) *)
  recState,               \* "idle" | "starting" | "active" | "stopping" (stop()
                          \* called) | "flushed" (stopping, last result out) |
                          \* "failed" (error fired) | "cooling" (ended, not ready)
  results,                \* the session's SpeechRecognitionResultList
  lastIndex,              \* resultIndex of the last delivered event, -1 if none
  delivered,              \* finalized fragments the engine delivered this turn
  (* playback controller *)
  isSpeaking,             \* useState(false)
  currentUtteranceRef,    \* utterance id, 0 for null
  speakTimeoutRef,        \* utterance id of the last dispatch timer set, 0 for null
  speakTimers,            \* utterance ids whose dispatch timer is pending
  speakCalls,             \* number of speak() calls so far; call n makes utterance n
  (* speech-output engine (the browser) *)
  synthQueue,             \* utterances handed to synth.speak, in order
  synthSpeaking,          \* the head of synthQueue has started
  synthPending,           \* cancelled utterances whose end/error callback is due
  (* interview step: React state of InterviewStep and its requests in flight *)
  mounted,                \* the step is on screen
  chatSession,            \* the chat session is set (non-null)
  initStage,              \* the init effect: "session" | "question" | "done" | "failed"
                          \* | "stopped"
  isAudioEnabled,         \* useState(true)
  replies,                \* sends awaiting their reply: the isAudioEnabled each saw
  sends,                  \* answers sent so far
  userText,               \* the text of the last answer passed to the service
  (* stitchText harness *)
  stExisting,             \* the existing text of the last stitch
  stIncoming,             \* the incoming text of the last stitch
  stResult,               \* the running result
  stSteps,                \* stitches applied so far
  (* conversation service (geminiService) and the model quotas *)
  activeModel,            \* the cached working model, "null" when cleared
  chatModel,              \* the model the chat session was created with
  quotaExhausted,         \* the models that answer 429 (environment)
  lastCall,               \* the last request on the chat: "initial" | "message"
  lastReply,              \* what it returned: "ok" or the kind of "Error: ..."
  servedBy,               \* the model that request went to
  serviceCalls            \* service calls made so far

timeVars == <<recognitionStartTimeRef, lastSpeechTimestampRef, keepaliveDue,
              startRequestedAt, now, ticks>>
captureVars == <<isListening, transcript, finalTranscriptRef, interimTranscriptRef,
                 isManuallyStoppedRef, retryTimers, recState, results, lastIndex,
                 delivered, engineCall, timeVars>>
playbackVars == <<isSpeaking, currentUtteranceRef, speakTimeoutRef, speakTimers,
                  speakCalls, synthQueue, synthSpeaking, synthPending>>
stepVars == <<mounted, chatSession, initStage, isAudioEnabled, replies, sends,
              userText>>
stitchVars == <<stExisting, stIncoming, stResult, stSteps>>
serviceVars == <<activeModel, chatModel, quotaExhausted, lastCall, lastReply,
                 servedBy, serviceCalls>>
vars == <<captureVars, playbackVars, stepVars, stitchVars, serviceVars>>

(***************************************************************************)
(* Bounds                                                                  *)
(***************************************************************************)
MaxResults == 2         \* results per recognition session
MaxCommittedLen == 6    \* no result event once committed text is longer
MaxRetryTimers == 1     \* retry timers pending at once
MaxSpeakCalls == 4      \* speak() calls
MaxStitches == 2        \* stitches applied in a row
MaxTicks == 2           \* clock advances
MaxSends == 1           \* answers sent in one interview
MaxServiceCalls == 4    \* calls of the conversation service

(***************************************************************************)
(* Strings                                                                 *)
(***************************************************************************)
Empty == <<>>
Space == <<" ">>

\* String.prototype.trim, on the one whitespace character the model uses
RECURSIVE TrimStart(_)
TrimStart(s) == IF s # <<>> /\ Head(s) = " " THEN TrimStart(Tail(s)) ELSE s

RECURSIVE TrimEnd(_)
TrimEnd(s) ==
  IF s # <<>> /\ s[Len(s)] = " " THEN TrimEnd(SubSeq(s, 1, Len(s) - 1)) ELSE s

Trim(s) == TrimEnd(TrimStart(s))

IsPrefix(p, s) == Len(p) <= Len(s) /\ SubSeq(s, 1, Len(p)) = p

(***************************************************************************)
(* Recognition engine inputs                                               *)
(***************************************************************************)
hello == <<"h", "e", "l", "l", "o">>
world == <<"w", "o", "r", "l", "d">>
hi == <<"h", "i">>
yo == <<" ", "y", "o">>          \* engines deliver chunks with a leading space

Chunks == {hello, world, hi, yo}

Result(t, f) == [transcript |-> t, isFinal |-> f]

\* What one result event changes: the results from the first non-final one on.
Tails ==
  {<<Result(c, f)>> : c \in Chunks, f \in BOOLEAN}
    \cup {<<Result(c, TRUE), Result(d, FALSE)>> : c \in Chunks, d \in Chunks}

RECURSIVE NumFinal(_)
NumFinal(rs) ==
  IF rs # <<>> /\ Head(rs).isFinal THEN 1 + NumFinal(Tail(rs)) ELSE 0

RECURSIVE FinalsOf(_)
FinalsOf(rs) ==
  IF rs = <<>> THEN <<>>
  ELSE (IF Head(rs).isFinal THEN <<Head(rs).transcript>> ELSE <<>>)
         \o FinalsOf(Tail(rs))

\* recognition.start(): throws InvalidStateError unless the engine is idle
StartThrows == recState # "idle"

\* recognition.stop(): an active engine may still deliver one last result
StopEngine(s) ==
  IF s = "active" THEN "stopping" ELSE IF s = "starting" THEN "flushed" ELSE s

\* the engine state after a result event
AfterResult(s) == IF s = "stopping" THEN "flushed" ELSE s

(***************************************************************************)
(* Capture controller                                                      *)
(***************************************************************************)

\* a capture step leaves playback, the interview step and the stitch harness alone
CaptureOnly == UNCHANGED <<playbackVars, stepVars, stitchVars, serviceVars>>

\* the keepalive effect: thresholds of the interval callback and its period (ms)
SafetyCeiling == 45000
GraceInterval == 1000
KeepaliveInterval == 1000

\* Date.now() when the hook mounts: an epoch time, far above the ceiling
MountTime == 50000

\* useEffect(..., [isListening]): a change of isListening clears the interval
\* and sets a new one, which first fires one period later
KeepaliveEffect(listening) ==
  IF listening # isListening THEN now + KeepaliveInterval ELSE keepaliveDue

\* finalTranscriptRef.current += prefix + chunk.trim()
AppendCommitted(final, chunk) ==
  final \o (IF Len(final) > 0 THEN Space ELSE Empty) \o Trim(chunk)

\* the loop of recognition.onresult over event.results[event.resultIndex ..];
\* i is the 0-based index, acc the refs and the local interim
RECURSIVE ResultLoop(_, _, _)
ResultLoop(rs, i, acc) ==
  IF i >= Len(rs) THEN acc
  ELSE LET chunk == rs[i + 1].transcript IN
       IF rs[i + 1].isFinal
       THEN ResultLoop(rs, i + 1,
              [acc EXCEPT !.final = AppendCommitted(acc.final, chunk),
                          !.interimRef = Empty])
       ELSE ResultLoop(rs, i + 1, [acc EXCEPT !.interim = acc.interim \o chunk])

\* setTranscript(final + (interim ? ' ' + interim : ''))
DisplayMutant(final, interim) == final \o Space \o interim
Display(final, interim) ==
  final \o (IF interim # Empty THEN Space \o interim ELSE Empty)

\* recognition.onresult(event)
OnResult(rs, resultIndex) ==
  LET acc == ResultLoop(rs, resultIndex,
               [final |-> finalTranscriptRef,
                interimRef |-> interimTranscriptRef,
                interim |-> Empty])
  IN /\ lastSpeechTimestampRef' = now
     /\ finalTranscriptRef' = acc.final
     /\ interimTranscriptRef' =
          (IF acc.interim # Empty THEN acc.interim ELSE acc.interimRef)
     /\ transcript' = Display(acc.final, acc.interim)
     /\ engineCall' = "none"

\* the engine changes its result list by one of tails and fires onresult
EngineResultFrom(tails) ==
  /\ CaptureOnly
  /\ recState \in {"active", "stopping"}
  /\ Len(finalTranscriptRef) <= MaxCommittedLen
  /\ \E tail \in tails :
       LET k == NumFinal(results)
           rs == SubSeq(results, 1, k) \o tail
       IN /\ Len(rs) <= MaxResults
          /\ results' = rs
          /\ lastIndex' = k
          /\ delivered' = delivered \o FinalsOf(tail)
          /\ OnResult(rs, k)
  /\ recState' = AfterResult(recState)
  /\ UNCHANGED <<isListening, isManuallyStoppedRef, retryTimers,
                 recognitionStartTimeRef, keepaliveDue, startRequestedAt, now, ticks>>

EngineResult == EngineResultFrom(Tails)

\* the engine fires the same event again: same list, same resultIndex
EngineRedeliver ==
  /\ CaptureOnly
  /\ recState \in {"active", "stopping"}
  /\ lastIndex >= 0
  /\ Len(finalTranscriptRef) <= MaxCommittedLen
  /\ OnResult(results, lastIndex)
  /\ recState' = AfterResult(recState)
  /\ UNCHANGED <<isListening, isManuallyStoppedRef, retryTimers, results,
                 lastIndex, delivered,
                 recognitionStartTimeRef, keepaliveDue, startRequestedAt, now, ticks>>

\* recognition.onstart: only the keepalive timestamps change
OnStart ==
  /\ CaptureOnly
  /\ recState = "starting"
  /\ recState' = "active"
  /\ recognitionStartTimeRef' = now
  /\ lastSpeechTimestampRef' = now
  /\ engineCall' = "none"
  /\ UNCHANGED <<isListening, transcript, finalTranscriptRef, interimTranscriptRef,
                 isManuallyStoppedRef, retryTimers, results, lastIndex, delivered,
                 keepaliveDue, startRequestedAt, now, ticks>>

\* the rescue of recognition.onend
RescueMutant(final, interim) == interim
Rescue(final, interim) ==
  final \o (IF Len(final) > 0 THEN Space ELSE Empty) \o Trim(interim)

\* what is left of the pending text once onend has looked at it
AfterRescueMutant(interim) == interim
AfterRescue(interim) == IF Trim(interim) # Empty THEN Empty ELSE interim

\* the test of onend: recognitionRef.current && !isManuallyStoppedRef.current
RestartWantedMutant == TRUE
RestartNeverMutant == FALSE
RestartWanted == ~isManuallyStoppedRef

\* recognition.onend. The engine has ended; cool says it still refuses a start.
OnEnd(cool) ==
  /\ CaptureOnly
  /\ recState \in {"starting", "active", "stopping", "flushed", "failed"}
  /\ cool => retryTimers < MaxRetryTimers
  /\ IF RestartWanted
     THEN /\ IF Trim(interimTranscriptRef) # Empty
             THEN /\ finalTranscriptRef' =
                       Rescue(finalTranscriptRef, interimTranscriptRef)
                  /\ transcript' = finalTranscriptRef'
             ELSE UNCHANGED <<finalTranscriptRef, transcript>>
          /\ interimTranscriptRef' = AfterRescue(interimTranscriptRef)
          /\ engineCall' = "start"
          /\ IF cool
             THEN /\ recState' = "cooling"          \* start() threw
                  /\ retryTimers' = retryTimers + 1
                  /\ UNCHANGED startRequestedAt
             ELSE /\ recState' = "starting"         \* start() succeeded
                  /\ startRequestedAt' = now
                  /\ UNCHANGED retryTimers
          /\ UNCHANGED <<isListening, keepaliveDue>>
     ELSE /\ isListening' = FALSE
          /\ keepaliveDue' = KeepaliveEffect(FALSE)
          /\ engineCall' = "none"
          /\ recState' = (IF cool THEN "cooling" ELSE "idle")
          /\ UNCHANGED <<finalTranscriptRef, interimTranscriptRef, transcript,
                         retryTimers, startRequestedAt>>
  /\ results' = <<>>
  /\ lastIndex' = -1
  /\ UNCHANGED <<isManuallyStoppedRef, delivered, recognitionStartTimeRef,
                 lastSpeechTimestampRef, now, ticks>>

EngineEnd == \E cool \in BOOLEAN : OnEnd(cool)

\* the engine ends and is ready at once for the start of onend
EngineEndsReady == OnEnd(FALSE)

\* the engine becomes ready for a start again
EngineSettle ==
  /\ CaptureOnly
  /\ recState = "cooling"
  /\ recState' = "idle"
  /\ engineCall' = "none"
  /\ UNCHANGED <<isListening, transcript, finalTranscriptRef, interimTranscriptRef,
                 isManuallyStoppedRef, retryTimers, results, lastIndex, delivered,
                 timeVars>>

\* the test of the retry: !isManuallyStoppedRef.current && recognitionRef.current
RetryWanted == ~isManuallyStoppedRef

\* the 100 ms retry of onend; a start() that throws again is swallowed
RetryStart ==
  /\ CaptureOnly
  /\ retryTimers > 0
  /\ retryTimers' = retryTimers - 1
  /\ IF RetryWanted
     THEN /\ engineCall' = "start"
          /\ IF StartThrows
             THEN UNCHANGED <<recState, startRequestedAt>>
             ELSE /\ recState' = "starting"
                  /\ startRequestedAt' = now
     ELSE /\ engineCall' = "none"
          /\ UNCHANGED <<recState, startRequestedAt>>
  /\ UNCHANGED <<isListening, transcript, finalTranscriptRef, interimTranscriptRef,
                 isManuallyStoppedRef, results, lastIndex, delivered,
                 recognitionStartTimeRef, lastSpeechTimestampRef, keepaliveDue,
                 now, ticks>>

ErrorCodes == {"no-speech", "network", "aborted", "not-allowed",
               "service-not-allowed", "audio-capture"}

\* the error classes of recognition.onerror
TransientErrors == {"no-speech", "network", "aborted"}
PermissionErrors == {"not-allowed", "service-not-allowed"}

\* isListening after onerror: setIsListening(false) on a permission error
ListeningAfterErrorMutant(code) == FALSE
ListeningAfterError(code) ==
  IF code \in TransientErrors THEN isListening
  ELSE IF code \in PermissionErrors THEN FALSE ELSE isListening

\* manual-stop intent after onerror: set on a permission error
IntentAfterErrorMutant(code) == isManuallyStoppedRef
IntentAfterError(code) ==
  IF code \in TransientErrors THEN isManuallyStoppedRef
  ELSE IF code \in PermissionErrors THEN TRUE ELSE isManuallyStoppedRef

\* recognition.onerror(event); the engine ends after an error
OnError(code) ==
  /\ CaptureOnly
  /\ recState \in {"starting", "active"}
  /\ recState' = "failed"
  /\ isListening' = ListeningAfterError(code)
  /\ isManuallyStoppedRef' = IntentAfterError(code)
  /\ keepaliveDue' = KeepaliveEffect(isListening')
  /\ engineCall' = "none"
  /\ UNCHANGED <<transcript, finalTranscriptRef, interimTranscriptRef, retryTimers,
                 results, lastIndex, delivered, recognitionStartTimeRef,
                 lastSpeechTimestampRef, startRequestedAt, now, ticks>>

EngineError == \E code \in ErrorCodes : OnError(code)

\* isListening after startListening: set true, left alone by the swallowed collision
ListeningAfterStartMutant(threw) == ~threw
ListeningAfterStart(threw) == TRUE

\* startListening(), as a callee
StartListeningOp ==
  /\ isManuallyStoppedRef' = FALSE
  /\ finalTranscriptRef' = Empty
  /\ interimTranscriptRef' = Empty
  /\ transcript' = Empty
  /\ isListening' = ListeningAfterStart(StartThrows)
  /\ keepaliveDue' = KeepaliveEffect(isListening')
  /\ engineCall' = "start"
  /\ IF StartThrows
     THEN UNCHANGED <<recState, results, lastIndex, startRequestedAt>>
     ELSE /\ recState' = "starting"
          /\ results' = <<>>
          /\ lastIndex' = -1
          /\ startRequestedAt' = now
  /\ delivered' = <<>>
  /\ UNCHANGED <<retryTimers, recognitionStartTimeRef, lastSpeechTimestampRef,
                 now, ticks>>

\* startListening()
StartListening == CaptureOnly /\ StartListeningOp

\* what stopListening() leaves alone
StopListeningFrame ==
  UNCHANGED <<finalTranscriptRef, interimTranscriptRef, retryTimers, results,
              lastIndex, delivered, recognitionStartTimeRef, lastSpeechTimestampRef,
              startRequestedAt, now, ticks>>

\* stopListening(), as a callee; the caller says what becomes of the transcript
StopListeningOp ==
  /\ isManuallyStoppedRef' = TRUE
  /\ recState' = StopEngine(recState)
  /\ engineCall' = "stop"
  /\ isListening' = FALSE
  /\ keepaliveDue' = KeepaliveEffect(FALSE)
  /\ StopListeningFrame

\* stopListening()
StopListeningMutant ==
  /\ CaptureOnly
  /\ StopListeningOp
  /\ transcript' = finalTranscriptRef
StopListening ==
  /\ CaptureOnly
  /\ StopListeningOp
  /\ UNCHANGED transcript

\* resetTranscript()
ResetTranscript ==
  /\ CaptureOnly
  /\ finalTranscriptRef' = Empty
  /\ interimTranscriptRef' = Empty
  /\ transcript' = Empty
  /\ delivered' = <<>>
  /\ engineCall' = "none"
  /\ UNCHANGED <<isListening, isManuallyStoppedRef, retryTimers, recState, results,
                 lastIndex, timeVars>>

\* time passes: a little more than the grace interval, or than the ceiling
Delays == {GraceInterval + 1, SafetyCeiling + 1}

Tick ==
  /\ CaptureOnly
  /\ ticks < MaxTicks
  /\ ticks' = ticks + 1
  /\ \E d \in Delays : now' = now + d
  /\ engineCall' = "none"
  /\ UNCHANGED <<isListening, transcript, finalTranscriptRef, interimTranscriptRef,
                 isManuallyStoppedRef, retryTimers, recState, results, lastIndex,
                 delivered, recognitionStartTimeRef, lastSpeechTimestampRef,
                 keepaliveDue, startRequestedAt>>

\* the test of the keepalive callback
KeepaliveFires ==
  /\ isListening
  /\ ~isManuallyStoppedRef
  /\ now - recognitionStartTimeRef > SafetyCeiling
  /\ now - lastSpeechTimestampRef > GraceInterval

\* the keepalive interval fires: recognitionRef.current.stop() when the test passes
Keepalive ==
  /\ CaptureOnly
  /\ now >= keepaliveDue
  /\ keepaliveDue' = now + KeepaliveInterval
  /\ IF KeepaliveFires
     THEN /\ engineCall' = "stop"
          /\ recState' = StopEngine(recState)
     ELSE /\ engineCall' = "none"
          /\ UNCHANGED recState
  /\ UNCHANGED <<isListening, transcript, finalTranscriptRef, interimTranscriptRef,
                 isManuallyStoppedRef, retryTimers, results, lastIndex, delivered,
                 recognitionStartTimeRef, lastSpeechTimestampRef, startRequestedAt,
                 now, ticks>>

InitCaptureVars ==
  /\ isListening = FALSE
  /\ transcript = Empty
  /\ finalTranscriptRef = Empty
  /\ interimTranscriptRef = Empty
  /\ isManuallyStoppedRef = FALSE
  /\ retryTimers = 0
  /\ recState = "idle"
  /\ results = <<>>
  /\ lastIndex = -1
  /\ delivered = <<>>
  /\ engineCall = "none"
  /\ recognitionStartTimeRef = 0
  /\ lastSpeechTimestampRef = MountTime
  /\ keepaliveDue = MountTime + KeepaliveInterval
  /\ startRequestedAt = 0
  /\ now = MountTime
  /\ ticks = 0

InitPlaybackVars ==
  /\ isSpeaking = FALSE
  /\ currentUtteranceRef = 0
  /\ speakTimeoutRef = 0
  /\ speakTimers = {}
  /\ speakCalls = 0
  /\ synthQueue = <<>>
  /\ synthSpeaking = FALSE
  /\ synthPending = {}

InitStepVars ==
  /\ mounted = TRUE
  /\ chatSession = FALSE
  /\ userText = Empty
  /\ initStage = "session"
  /\ isAudioEnabled = TRUE
  /\ replies = <<>>
  /\ sends = 0

InitStitchVars ==
  /\ stExisting = Empty
  /\ stIncoming = Empty
  /\ stResult = Empty
  /\ stSteps = 0

InitServiceVars ==
  /\ activeModel = "null"
  /\ chatModel = "null"
  /\ quotaExhausted = {}
  /\ lastCall = "none"
  /\ lastReply = "none"
  /\ servedBy = "null"
  /\ serviceCalls = 0

Init ==
  /\ InitCaptureVars
  /\ InitPlaybackVars
  /\ InitStepVars
  /\ InitStitchVars
  /\ InitServiceVars

Next ==
  \/ StartListening
  \/ StopListening
  \/ ResetTranscript
  \/ OnStart
  \/ EngineResult
  \/ EngineRedeliver
  \/ EngineEnd
  \/ EngineSettle
  \/ RetryStart
  \/ EngineError

Spec == Init /\ [][Next]_vars

(***************************************************************************)
(* Capture controller with the clock and the keepalive interval            *)
(***************************************************************************)

\* what the engine hears in the timed runs: the one word "hi", interim or final
QuietTails == {<<Result(hi, f)>> : f \in BOOLEAN}

EngineQuietResult == EngineResultFrom(QuietTails)

NextWatchdog ==
  \/ StartListening
  \/ StopListening
  \/ OnStart
  \/ EngineQuietResult
  \/ EngineEnd
  \/ EngineSettle
  \/ RetryStart
  \/ EngineError
  \/ Tick
  \/ Keepalive

SpecWatchdog == Init /\ [][NextWatchdog]_vars

(***************************************************************************)
(* The restart loop under an engine that accepts every start() made while  *)
(* it is not running: onend finds the engine ready (OnEnd(FALSE)), so the  *)
(* retry timer is never armed.  The engine's side of the contract is the   *)
(* fairness: an engine that was asked to stop, or that failed, delivers    *)
(* onend; an engine whose start() was accepted delivers onstart, however   *)
(* often the start is repeated.                                            *)
(***************************************************************************)
EngineEndsAfterStop ==
  /\ recState \in {"stopping", "flushed", "failed"}
  /\ OnEnd(FALSE)

NextRestart ==
  \/ StartListening
  \/ StopListening
  \/ OnStart
  \/ EngineQuietResult
  \/ EngineEndsReady
  \/ EngineError
  \/ Tick
  \/ Keepalive

SpecRestart ==
  /\ Init
  /\ [][NextRestart]_vars
  /\ WF_vars(EngineEndsAfterStop)
  /\ SF_vars(OnStart)

(***************************************************************************)
(* Playback controller and the speech-output engine                        *)
(***************************************************************************)

\* a playback step leaves capture, the interview step and the stitch harness alone
PlaybackOnly == UNCHANGED <<captureVars, stepVars, stitchVars, serviceVars>>

ok == <<"o", "k">>
stars == <<"*", "*">>
heading == <<"#", " ", "h", "i", "*">>

SpeakTexts == {ok, stars, heading}

\* text.replace of the markup characters: the markup characters * # _ and the backquote,
\* written "bq" here
RECURSIVE StripMarkup(_)
StripMarkup(s) ==
  IF s = <<>> THEN <<>>
  ELSE (IF Head(s) \in {"*", "#", "_", "bq"} THEN <<>> ELSE <<Head(s)>>)
         \o StripMarkup(Tail(s))

CleanText(text) == Trim(StripMarkup(text))

\* clearTimeout(speakTimeoutRef.current), when the ref holds a handle
ClearSpeakTimeoutMutant(timers, ref) == timers
ClearSpeakTimeout(timers, ref) == timers \ {ref}

SeqRange(q) == {q[i] : i \in 1..Len(q)}

\* synth.cancel(): the queue is emptied; each removed utterance's end/error
\* callback is delivered later
SynthCancel ==
  /\ synthQueue' = <<>>
  /\ synthSpeaking' = FALSE
  /\ synthPending' = synthPending \cup SeqRange(synthQueue)

\* speak(text), as a callee
SpeakOp(text) ==
  /\ speakCalls' = speakCalls + 1
  /\ SynthCancel
  /\ isSpeaking' = FALSE
  /\ IF CleanText(text) = Empty
     THEN /\ speakTimers' = ClearSpeakTimeout(speakTimers, speakTimeoutRef)
          /\ UNCHANGED <<currentUtteranceRef, speakTimeoutRef>>
     ELSE /\ currentUtteranceRef' = speakCalls + 1
          /\ speakTimers' =
               ClearSpeakTimeout(speakTimers, speakTimeoutRef) \cup {speakCalls + 1}
          /\ speakTimeoutRef' = speakCalls + 1

\* speak(text)
Speak(text) ==
  /\ PlaybackOnly
  /\ speakCalls < MaxSpeakCalls
  /\ SpeakOp(text)

SpeakAny == \E text \in SpeakTexts : Speak(text)

\* the 100 ms dispatch timer of speak: synth.speak(utterance)
DispatchTimer(u) ==
  /\ PlaybackOnly
  /\ u \in speakTimers
  /\ speakTimers' = speakTimers \ {u}
  /\ synthQueue' = Append(synthQueue, u)
  /\ UNCHANGED <<isSpeaking, currentUtteranceRef, speakTimeoutRef, speakCalls,
                 synthSpeaking, synthPending>>

DispatchAny == \E u \in speakTimers : DispatchTimer(u)

\* the engine starts the head of its queue: utterance.onstart
SynthStart ==
  /\ PlaybackOnly
  /\ synthQueue # <<>>
  /\ ~synthSpeaking
  /\ synthSpeaking' = TRUE
  /\ isSpeaking' = TRUE
  /\ UNCHANGED <<currentUtteranceRef, speakTimeoutRef, speakTimers, speakCalls,
                 synthQueue, synthPending>>

\* the end of an utterance, or the reason of its error event
FinishKinds == {"end", "synthesis-failed"}
CancelKinds == {"end", "canceled", "interrupted"}
CallbackKinds == FinishKinds \cup CancelKinds

\* isSpeaking after utterance.onend / utterance.onerror: false, whatever the reason
SpeakingAfterCallbackMutant(kind) ==
  IF kind \in {"end", "canceled", "interrupted"} THEN FALSE ELSE isSpeaking
SpeakingAfterCallback(kind) == FALSE

\* utterance.onend / utterance.onerror
UtteranceCallback(kind) ==
  /\ isSpeaking' = SpeakingAfterCallback(kind)
  /\ currentUtteranceRef' = (IF kind = "end" THEN 0 ELSE currentUtteranceRef)

\* the speaking utterance finishes, or fails
SynthFinish ==
  /\ PlaybackOnly
  /\ synthSpeaking
  /\ synthQueue' = Tail(synthQueue)
  /\ synthSpeaking' = FALSE
  /\ \E kind \in FinishKinds : UtteranceCallback(kind)
  /\ UNCHANGED <<speakTimeoutRef, speakTimers, speakCalls, synthPending>>

\* the callback of a cancelled utterance arrives
LateCallback ==
  /\ PlaybackOnly
  /\ \E u \in synthPending :
       /\ synthPending' = synthPending \ {u}
       /\ \E kind \in CancelKinds : UtteranceCallback(kind)
  /\ UNCHANGED <<speakTimeoutRef, speakTimers, speakCalls, synthQueue, synthSpeaking>>

\* cancelSpeech(), as a callee
CancelSpeechOp ==
  /\ speakTimers' = ClearSpeakTimeout(speakTimers, speakTimeoutRef)
  /\ speakTimeoutRef' = 0
  /\ SynthCancel
  /\ isSpeaking' = FALSE
  /\ UNCHANGED <<currentUtteranceRef, speakCalls>>

\* cancelSpeech()
CancelSpeech == PlaybackOnly /\ CancelSpeechOp

InitPlayback == Init

NextPlayback ==
  \/ SpeakAny
  \/ DispatchAny
  \/ SynthStart
  \/ SynthFinish
  \/ LateCallback
  \/ CancelSpeech

SpecPlayback == InitPlayback /\ [][NextPlayback]_vars

(***************************************************************************)
(* Interview step (components/InterviewStep.tsx) composing the two         *)
(* controllers                                                             *)
(***************************************************************************)

\* a sequence without its i-th element
RemoveAt(q, i) == SubSeq(q, 1, i - 1) \o SubSeq(q, i + 1, Len(q))

\* the branch of toggleRecording taken when not listening:
\* cancelSpeech(); setInputValue(''); startListening()
StartCaptureMutant ==
  /\ UNCHANGED playbackVars
  /\ StartListeningOp
StartCapture ==
  /\ CancelSpeechOp
  /\ StartListeningOp

\* handleSendMessage(). It is only called while listening, when the sync effect
\* keeps inputValue equal to the transcript.
HandleSendMessage ==
  IF Trim(transcript) = Empty \/ ~chatSession
  THEN UNCHANGED <<captureVars, playbackVars, stepVars>>
  ELSE /\ StopListeningOp
       /\ CancelSpeechOp
       /\ transcript' = Empty
       /\ userText' = transcript
       /\ replies' = Append(replies, isAudioEnabled)
       /\ sends' = sends + 1
       /\ UNCHANGED <<mounted, chatSession, initStage, isAudioEnabled>>

\* the user taps the main button: toggleRecording()
ToggleRecording ==
  /\ mounted
  /\ isListening => sends < MaxSends
  /\ IF isListening
     THEN HandleSendMessage
     ELSE StartCapture /\ UNCHANGED stepVars
  /\ UNCHANGED <<stitchVars, serviceVars>>

\* the user taps the audio button
ToggleAudio ==
  /\ mounted
  /\ isAudioEnabled' = ~isAudioEnabled
  /\ UNCHANGED <<mounted, chatSession, initStage, replies, sends, userText>>
  /\ UNCHANGED <<captureVars, playbackVars, stitchVars, serviceVars>>

\* the user taps End: cancelSpeech(); onFinish(messages). The parent leaves the
\* interview step, which unmounts: the cleanups of the step and of useSpeech run
EndInterview ==
  /\ mounted
  /\ mounted' = FALSE
  /\ CancelSpeechOp
  /\ isManuallyStoppedRef' = TRUE
  /\ recState' = StopEngine(recState)
  /\ engineCall' = "stop"
  /\ UNCHANGED <<isListening, transcript, finalTranscriptRef, interimTranscriptRef,
                 retryTimers, results, lastIndex, delivered, timeVars>>
  /\ UNCHANGED <<chatSession, initStage, isAudioEnabled, replies, sends,
                 userText>>
  /\ UNCHANGED <<stitchVars, serviceVars>>

\* init: startInterviewSession settles
InitSessionSettles ==
  /\ initStage = "session"
  /\ \/ chatSession' = TRUE /\ initStage' = "question"
     \/ initStage' = "failed" /\ UNCHANGED chatSession
  /\ UNCHANGED <<mounted, isAudioEnabled, replies, sends, userText>>
  /\ UNCHANGED <<captureVars, playbackVars, stitchVars, serviceVars>>

\* init: sendInitialMessageWithResume settles; the effect's closure saw
\* isAudioEnabled true, so the first question is spoken
FirstQuestionSettles ==
  /\ initStage = "question"
  /\ \/ initStage' = "done" /\ \E text \in SpeakTexts : SpeakOp(text)
     \/ initStage' = "failed" /\ UNCHANGED playbackVars
  /\ UNCHANGED <<mounted, chatSession, isAudioEnabled, replies, sends, userText>>
  /\ UNCHANGED <<captureVars, stitchVars, serviceVars>>

\* handleSendMessage resumes: sendMessageWithVideo settles for one of the sends
ReplySettles ==
  /\ \E i \in 1..Len(replies) :
       /\ replies' = RemoveAt(replies, i)
       /\ \/ replies[i] /\ \E text \in SpeakTexts : SpeakOp(text)
          \/ ~replies[i] /\ UNCHANGED playbackVars
          \/ UNCHANGED playbackVars              \* the request failed
  /\ UNCHANGED <<mounted, chatSession, initStage, isAudioEnabled, sends, userText>>
  /\ UNCHANGED <<captureVars, stitchVars, serviceVars>>

NextInterview ==
  \/ ToggleRecording
  \/ ToggleAudio
  \/ EndInterview
  \/ InitSessionSettles
  \/ FirstQuestionSettles
  \/ ReplySettles
  \/ OnStart
  \/ EngineQuietResult
  \/ EngineEndsReady
  \/ EngineError
  \/ DispatchAny
  \/ SynthStart
  \/ SynthFinish
  \/ LateCallback

SpecInterview == Init /\ [][NextInterview]_vars

(***************************************************************************)
(* The interview step with the mounted guard (isMountedRef): every resumed *)
(* await tests the ref before it acts, and the audio button starts and     *)
(* stops capture.  The ref is false exactly when the step has ended, which *)
(* is when mounted is false: End sets it and the cleanup sets it.  The     *)
(* init chain that returns at a guard is at initStage "stopped".           *)
(***************************************************************************)

\* isMountedRef.current
IsMountedMutant == TRUE
IsMounted == mounted

\* init: startInterviewSession settles
GuardedInitSessionSettles ==
  /\ initStage = "session"
  /\ IF ~IsMounted
     THEN initStage' = "stopped" /\ UNCHANGED chatSession
     ELSE \/ chatSession' = TRUE /\ initStage' = "question"
          \/ initStage' = "failed" /\ UNCHANGED chatSession
  /\ UNCHANGED <<mounted, isAudioEnabled, replies, sends, userText>>
  /\ UNCHANGED <<captureVars, playbackVars, stitchVars, serviceVars>>

\* init: sendInitialMessageWithResume settles; the closure saw isAudioEnabled true
GuardedFirstQuestionSettles ==
  /\ initStage = "question"
  /\ IF ~IsMounted
     THEN initStage' = "stopped" /\ UNCHANGED playbackVars
     ELSE \/ /\ initStage' = "done"
             /\ IF IsMounted
                THEN \E text \in SpeakTexts : SpeakOp(text)
                ELSE UNCHANGED playbackVars
          \/ initStage' = "failed" /\ UNCHANGED playbackVars
  /\ UNCHANGED <<mounted, chatSession, isAudioEnabled, replies, sends, userText>>
  /\ UNCHANGED <<captureVars, stitchVars, serviceVars>>

\* handleSendMessage resumes: sendMessageWithVideo settles for one of the sends
GuardedReplySettles ==
  /\ \E i \in 1..Len(replies) :
       /\ replies' = RemoveAt(replies, i)
       /\ IF ~IsMounted
          THEN UNCHANGED playbackVars
          ELSE \/ /\ replies[i] /\ IsMounted
                  /\ \E text \in SpeakTexts : SpeakOp(text)
               \/ ~(replies[i] /\ IsMounted) /\ UNCHANGED playbackVars
               \/ UNCHANGED playbackVars         \* "Error: ..." or a rejection
  /\ UNCHANGED <<mounted, chatSession, initStage, isAudioEnabled, sends, userText>>
  /\ UNCHANGED <<captureVars, stitchVars, serviceVars>>

\* toggleAudio(): enabling starts capture, disabling stops capture and playback
GuardedToggleAudio ==
  /\ mounted
  /\ isAudioEnabled' = ~isAudioEnabled
  /\ IF ~isAudioEnabled
     THEN StartCapture
     ELSE /\ StopListeningOp
          /\ UNCHANGED transcript
          /\ CancelSpeechOp
  /\ UNCHANGED <<mounted, chatSession, initStage, replies, sends, userText>>
  /\ UNCHANGED <<stitchVars, serviceVars>>

NextGuardedStep ==
  \/ ToggleRecording
  \/ GuardedToggleAudio
  \/ EndInterview
  \/ GuardedInitSessionSettles
  \/ GuardedFirstQuestionSettles
  \/ GuardedReplySettles
  \/ OnStart
  \/ EngineQuietResult
  \/ EngineEndsReady
  \/ EngineError
  \/ DispatchAny
  \/ SynthStart
  \/ SynthFinish
  \/ LateCallback

SpecGuardedStep == Init /\ [][NextGuardedStep]_vars

(***************************************************************************)
(* stitchText                                                              *)
(***************************************************************************)

\* a stitch step leaves capture, playback and the interview step alone
StitchOnly == UNCHANGED <<captureVars, playbackVars, stepVars, serviceVars>>

MaxOverlapWords == 5

UpperChars == <<"A", "B", "C", "D", "E", "F", "G", "H", "I", "J", "K", "L", "M",
                "N", "O", "P", "Q", "R", "S", "T", "U", "V", "W", "X", "Y", "Z">>
LowerChars == <<"a", "b", "c", "d", "e", "f", "g", "h", "i", "j", "k", "l", "m",
                "n", "o", "p", "q", "r", "s", "t", "u", "v", "w", "x", "y", "z">>

LowerChar(c) ==
  IF \E i \in 1..Len(UpperChars) : UpperChars[i] = c
  THEN LowerChars[CHOOSE i \in 1..Len(UpperChars) : UpperChars[i] = c]
  ELSE c

\* String.prototype.toLowerCase
ToLowerCase(s) == [i \in 1..Len(s) |-> LowerChar(s[i])]

\* String.prototype.startsWith
StartsWith(s, p) == IsPrefix(p, s)

\* s.split(/\s+/) of a trimmed, non-empty string
RECURSIVE SplitAcc(_, _, _)
SplitAcc(s, cur, out) ==
  IF s = <<>> THEN (IF cur # <<>> THEN Append(out, cur) ELSE out)
  ELSE IF Head(s) = " "
       THEN SplitAcc(Tail(s), <<>>, IF cur # <<>> THEN Append(out, cur) ELSE out)
       ELSE SplitAcc(Tail(s), Append(cur, Head(s)), out)

SplitWords(s) == SplitAcc(s, <<>>, <<>>)

\* words.join(' ')
RECURSIVE JoinWords(_)
JoinWords(ws) ==
  IF ws = <<>> THEN <<>>
  ELSE IF Len(ws) = 1 THEN ws[1]
       ELSE ws[1] \o Space \o JoinWords(Tail(ws))

\* replace(/[.,?!]/g, '')
RECURSIVE StripPunctuation(_)
StripPunctuation(s) ==
  IF s = <<>> THEN <<>>
  ELSE (IF Head(s) \in {".", ",", "?", "!"} THEN <<>> ELSE <<Head(s)>>)
         \o StripPunctuation(Tail(s))

\* words.slice(-i), words.slice(0, i), words.slice(i)
LastWords(ws, i) == SubSeq(ws, Len(ws) - i + 1, Len(ws))
FirstWords(ws, i) == SubSeq(ws, 1, i)
RestWords(ws, i) == SubSeq(ws, i + 1, Len(ws))

\* the comparison of the overlap loop for a span of i words
OverlapAtMutant(existingWords, incomingWords, i) ==
  JoinWords(LastWords(existingWords, i)) = JoinWords(FirstWords(incomingWords, i))
OverlapAt(existingWords, incomingWords, i) ==
  StripPunctuation(ToLowerCase(JoinWords(LastWords(existingWords, i))))
    = StripPunctuation(ToLowerCase(JoinWords(FirstWords(incomingWords, i))))

Min(a, b) == IF a <= b THEN a ELSE b

\* the overlap loop, from i down to 1, and the plain append after it
RECURSIVE OverlapLoop(_, _, _, _, _)
OverlapLoop(s, e, existingWords, incomingWords, i) ==
  IF i <= 0 THEN s \o Space \o e
  ELSE IF OverlapAt(existingWords, incomingWords, i)
       THEN s \o Space \o JoinWords(RestWords(incomingWords, i))
       ELSE OverlapLoop(s, e, existingWords, incomingWords, i - 1)

\* the replace test of stitchText: eLower.startsWith(sLower)
IsResendMutant(s, e) == StartsWith(e, s)
IsResend(s, e) == StartsWith(ToLowerCase(e), ToLowerCase(s))

StitchText(existing, incoming) ==
  LET s == Trim(existing)
      e == Trim(incoming)
  IN IF s = Empty THEN e
     ELSE IF e = Empty THEN s
     ELSE IF IsResend(s, e) THEN e
     ELSE LET existingWords == SplitWords(s)
              incomingWords == SplitWords(e)
              maxOverlap == Min(Min(Len(existingWords), Len(incomingWords)),
                                MaxOverlapWords)
          IN OverlapLoop(s, e, existingWords, incomingWords, maxOverlap)

Thank == <<"T", "h", "a", "n", "k">>
ThankYou == <<"T", "h", "a", "n", "k", " ", "y", "o", "u">>
thankYouDot == <<"t", "h", "a", "n", "k", " ", "Y", "o", "u", ".">>
MyNameIs == <<"M", "y", " ", "n", "a", "m", "e", " ", "i", "s">>
Krish == <<"K", "r", "i", "s", "h">>
isKrish == <<"i", "s", " ", "K", "r", "i", "s", "h">>
youKrish == <<" ", "y", "o", "u", " ", "K", "r", "i", "s", "h", " ">>

weGoGo == <<"w", "e", " ", "g", "o", " ", "g", "o">>
goGoOn == <<"g", "o", " ", "G", "o", ",", " ", "o", "n">>
the == <<"t", "h", "e">>
thenWeGo == <<"t", "h", "e", "n", " ", "w", "e", " ", "g", "o">>
sixWords == <<"a", " ", "b", " ", "c", " ", "d", " ", "e", " ", "f">>

StitchTexts == {Empty, Thank, ThankYou, thankYouDot, MyNameIs, Krish, isKrish,
                youKrish, weGoGo, goGoOn, the, thenWeGo, sixWords}

\* committed = stitchText(committed, incoming), as the committing callers use it
Stitch ==
  /\ StitchOnly
  /\ stSteps < MaxStitches
  /\ \E incoming \in StitchTexts :
       /\ stExisting' = stResult
       /\ stIncoming' = incoming
       /\ stResult' = StitchText(stResult, incoming)
  /\ stSteps' = stSteps + 1

InitStitch ==
  /\ InitCaptureVars
  /\ InitPlaybackVars
  /\ InitStepVars
  /\ InitServiceVars
  /\ stExisting = Empty
  /\ stIncoming = Empty
  /\ stResult \in StitchTexts
  /\ stSteps = 0

NextStitch == Stitch

SpecStitch == InitStitch /\ [][NextStitch]_vars

(***************************************************************************)
(* Conversation service: the cached working model, the chat session bound  *)
(* to a model, and the quota of each model                                 *)
(***************************************************************************)

\* a service step leaves the speech controllers, the step and the harness alone
ServiceOnly == UNCHANGED <<captureVars, playbackVars, stepVars, stitchVars>>

MODEL_PRIORITY_LIST == <<"gemini-2.5-flash", "gemini-2.5-flash-lite">>

\* the probe loop of getWorkingModel: the first model of the list, from position
\* i on, whose probe request succeeds; "null" when every probe fails
RECURSIVE FirstWorking(_, _)
FirstWorking(i, exhausted) ==
  IF i > Len(MODEL_PRIORITY_LIST) THEN "null"
  ELSE IF MODEL_PRIORITY_LIST[i] \notin exhausted THEN MODEL_PRIORITY_LIST[i]
       ELSE FirstWorking(i + 1, exhausted)

\* what getWorkingModel() returns
WorkingModel(active, exhausted) ==
  IF active # "null" THEN active
  ELSE IF FirstWorking(1, exhausted) # "null" THEN FirstWorking(1, exhausted)
       ELSE "gemini-2.5-flash"

\* activeModel after getWorkingModel(): the default is returned uncached
ActiveAfterProbe(active, exhausted) ==
  IF active # "null" THEN active ELSE FirstWorking(1, exhausted)

\* startInterviewSession(): the chat is created with the working model
StartInterviewSession ==
  /\ ServiceOnly
  /\ serviceCalls < MaxServiceCalls
  /\ serviceCalls' = serviceCalls + 1
  /\ chatModel' = WorkingModel(activeModel, quotaExhausted)
  /\ activeModel' = ActiveAfterProbe(activeModel, quotaExhausted)
  /\ lastCall' = "none"
  /\ lastReply' = "none"
  /\ servedBy' = "null"
  /\ UNCHANGED quotaExhausted

\* what chat.sendMessage can do on a chat bound to model m
Outcomes(m) ==
  IF m \in quotaExhausted THEN {"quota", "network"}
  ELSE {"ok", "network", "notfound", "other"}

\* activeModel after a request: cleared on the quota and the 404 errors
ActiveAfterReply(reply) ==
  IF reply \in {"quota", "notfound"} THEN "null" ELSE activeModel

\* a request on the chat: chat.sendMessage goes to the model of the chat
ChatRequest(call) ==
  /\ ServiceOnly
  /\ chatModel # "null"
  /\ serviceCalls < MaxServiceCalls
  /\ serviceCalls' = serviceCalls + 1
  /\ lastCall' = call
  /\ servedBy' = chatModel
  /\ \E reply \in Outcomes(chatModel) :
       /\ lastReply' = reply
       /\ activeModel' = ActiveAfterReply(reply)
  /\ UNCHANGED <<chatModel, quotaExhausted>>

\* sendInitialMessageWithResume(chat, userDetails)
SendInitialMessageWithResume ==
  /\ lastCall = "none"
  /\ ChatRequest("initial")

\* sendMessageWithVideo(chat, text, imageBase64)
SendMessageWithVideo ==
  /\ lastCall # "none"
  /\ ChatRequest("message")

\* generateDetailedFeedback(): the analysis model is the working model
GenerateDetailedFeedback ==
  /\ ServiceOnly
  /\ serviceCalls < MaxServiceCalls
  /\ serviceCalls' = serviceCalls + 1
  /\ activeModel' = ActiveAfterProbe(activeModel, quotaExhausted)
  /\ UNCHANGED <<chatModel, quotaExhausted, lastCall, lastReply, servedBy>>

\* the quota of a model runs out
QuotaRunsOut ==
  /\ ServiceOnly
  /\ \E m \in {MODEL_PRIORITY_LIST[i] : i \in 1..Len(MODEL_PRIORITY_LIST)} :
       /\ m \notin quotaExhausted
       /\ quotaExhausted' = quotaExhausted \cup {m}
  /\ UNCHANGED <<activeModel, chatModel, lastCall, lastReply, servedBy,
                 serviceCalls>>

NextService ==
  \/ StartInterviewSession
  \/ SendInitialMessageWithResume
  \/ SendMessageWithVideo
  \/ GenerateDetailedFeedback
  \/ QuotaRunsOut

SpecService == Init /\ [][NextService]_vars

(***************************************************************************)
(* Claims                                                                  *)
(***************************************************************************)

\* the engine's termination reaches onend after stopListening(): stop() was
\* called, no result event came after it, and manual-stop intent is true
ManualEnd == EngineEnd /\ recState = "stopping" /\ isManuallyStoppedRef

\* the engine's termination reaches onend while manual-stop intent is false
NonManualEnd == EngineEnd /\ ~isManuallyStoppedRef

\* C followed by P: committed text with the pending text appended
Folded(c, p) == c \o (IF c # Empty THEN Space ELSE Empty) \o Trim(p)

C2_IdempotentRedelivery ==
  [][EngineRedeliver => finalTranscriptRef' = finalTranscriptRef]_vars

\* C3: on onend with manual-stop intent false the controller asks the engine to
\* start again (the start succeeds, or its retry timer is set), pending interim
\* text is appended to committed text once and cleared, and with nothing pending
\* (as after a fold) onend appends nothing; the delayed retry appends nothing.
C3_RestartTransparency ==
  /\ [][NonManualEnd
          => /\ recState' = "starting" \/ retryTimers' = retryTimers + 1
             /\ IF Trim(interimTranscriptRef) # Empty
                THEN /\ finalTranscriptRef'
                          = Folded(finalTranscriptRef, interimTranscriptRef)
                     /\ interimTranscriptRef' = Empty
                     /\ transcript' = finalTranscriptRef'
                ELSE UNCHANGED <<finalTranscriptRef, transcript>>]_vars
  /\ [][RetryStart
          => UNCHANGED <<finalTranscriptRef, interimTranscriptRef, transcript>>]_vars

C3_Witness ==
  /\ recState = "starting"
  /\ ~isManuallyStoppedRef
  /\ isListening
  /\ delivered = <<hi>>
  /\ finalTranscriptRef = hi \o Space \o Trim(yo)
  /\ interimTranscriptRef = Empty
  /\ transcript = finalTranscriptRef
  /\ results = <<>>

\* the finalized fragments joined by single spaces
JoinFragments(fs) == JoinWords([i \in 1..Len(fs) |-> Trim(fs[i])])

\* C4: once the turn is over, the committed transcript equals the
\* single-space-joined sequence of the finalized fragments the engine delivered
\* in the turn, whatever restarts and rescues happened in between.
C4_NoDuplication ==
  (isManuallyStoppedRef /\ recState = "idle")
    => finalTranscriptRef = JoinFragments(delivered)

\* the range of the last event holds the interim text "hi" and nothing else
OnlyInterimHi ==
  SubSeq(results', lastIndex' + 1, Len(results')) = <<Result(hi, FALSE)>>

\* C5: with the buffers as resetTranscript() leaves them (all empty), an onresult
\* event carrying only the interim text "hi" makes the visible transcript
\* exactly "hi".
C5_ResetThenInterim ==
  [][(EngineResult /\ OnlyInterimHi /\ finalTranscriptRef = Empty
        /\ interimTranscriptRef = Empty /\ transcript = Empty)
       => transcript' = hi]_vars

\* C8: after startListening() committed and pending text are empty, the visible
\* transcript is empty and manual-stop intent is false; when the engine is
\* already active the collision is swallowed and isListening is true.
C8_StartListeningPost ==
  [][StartListening
       => /\ finalTranscriptRef' = Empty
          /\ interimTranscriptRef' = Empty
          /\ transcript' = Empty
          /\ ~isManuallyStoppedRef'
          /\ StartThrows => (isListening' /\ recState' = recState)]_vars

\* startListening() after stopListening(), before the engine has ended
C8_Witness ==
  /\ recState = "stopping"
  /\ ~isManuallyStoppedRef
  /\ isListening
  /\ results # <<>>
  /\ finalTranscriptRef = Empty
  /\ interimTranscriptRef = Empty
  /\ transcript = Empty

C10_CommittedMonotone ==
  [][IsPrefix(finalTranscriptRef, finalTranscriptRef')
       \/ StartListening \/ ResetTranscript]_vars

\* a fragment of an earlier session is still committed after the restart
C10_Witness ==
  /\ recState = "active"
  /\ results = <<Result(hi, TRUE)>>
  /\ delivered = <<hi, hi>>
  /\ finalTranscriptRef = hi \o Space \o hi

\* some run of trailing words of e equals, as the overlap loop compares them,
\* the same number of leading words of i
SomeOverlap(e, i) ==
  LET ew == SplitWords(Trim(e))
      iw == SplitWords(Trim(i))
  IN \E k \in 1..Min(Len(ew), Len(iw)) : OverlapAt(ew, iw, k)

LiveUtterances == speakTimers \cup SeqRange(synthQueue)

\* C7: at most one utterance is waiting, queued or speaking at any time, it is
\* the one of the latest speak() call (every earlier one has been discarded),
\* and isSpeaking is true only while that one utterance is speaking.
C7_SingleUtterance ==
  /\ Len(synthQueue) + Cardinality(speakTimers) <= 1
  /\ \A u \in LiveUtterances : u = speakCalls
  /\ isSpeaking => (synthSpeaking /\ synthQueue = <<speakCalls>>)

\* speak(A), A handed to the engine, speak(B), B speaking
C7_Witness ==
  /\ speakCalls = 2
  /\ 1 \in synthPending
  /\ synthQueue = <<2>>
  /\ synthSpeaking
  /\ isSpeaking

\* C11: whenever the engine reports termination while manual-stop intent is
\* true, isListening is false afterwards, no engine start is called and no retry
\* timer is set; a retry timer that fires while the intent is true calls no
\* start; and onend calls start only when the intent is false.
C11_ManualStopEndsLoop ==
  /\ [][(EngineEnd /\ isManuallyStoppedRef)
          => /\ ~isListening'
             /\ engineCall' # "start"
             /\ recState' \in {"idle", "cooling"}
             /\ retryTimers' = retryTimers]_vars
  /\ [][(RetryStart /\ isManuallyStoppedRef)
          => (engineCall' # "start" /\ recState' = recState)]_vars
  /\ [][(EngineEnd /\ engineCall' = "start") => ~isManuallyStoppedRef]_vars

\* the engine has confirmed a manual stop (the pending text was not rescued)
\* while a retry timer of an earlier restart is still pending
C11_Witness ==
  /\ recState = "idle"
  /\ isManuallyStoppedRef
  /\ ~isListening
  /\ retryTimers = 1
  /\ interimTranscriptRef = hi
  /\ engineCall = "none"

\* C12: when the delayed retry of a failed restart fails as well, capture is
\* reported inactive: isListening becomes false.
C12_FailedRetryReported ==
  [][(RetryStart /\ ~isManuallyStoppedRef /\ StartThrows) => ~isListening']_vars

\* C13: a permission error makes isListening false and manual-stop intent true;
\* from then until the next startListening() the intent stays true, isListening
\* stays false, no step calls the engine's start (not onend, not a pending retry
\* timer) and the keepalive callback calls no stop.
C13_PermissionDenialTerminal ==
  /\ [][(\E code \in PermissionErrors : OnError(code))
          => (~isListening' /\ isManuallyStoppedRef')]_vars
  /\ [][(isManuallyStoppedRef /\ ~StartListening)
          => /\ isManuallyStoppedRef'
             /\ ~isListening'
             /\ engineCall' # "start"
             /\ Keepalive => engineCall' = "none"]_vars

\* permission has just been denied to a session while a retry timer of an
\* earlier restart is pending
C13_Witness ==
  /\ recState = "failed"
  /\ isManuallyStoppedRef
  /\ ~isListening
  /\ retryTimers = 1
  /\ engineCall = "none"
  /\ ticks = 0

\* C14: an onerror event with a transient code leaves isListening, manual-stop
\* intent, committed text, pending text and the visible transcript unchanged and
\* calls neither stop nor start on the engine.
C14_TransientErrorsIgnored ==
  [][(\E code \in TransientErrors : OnError(code))
       => /\ UNCHANGED <<isListening, isManuallyStoppedRef, finalTranscriptRef,
                         interimTranscriptRef, transcript>>
          /\ engineCall' = "none"]_vars

\* an error has hit a listening session that holds committed and pending text
C14_Witness ==
  /\ recState = "failed"
  /\ isListening
  /\ ~isManuallyStoppedRef
  /\ finalTranscriptRef = hello
  /\ interimTranscriptRef = world
  /\ transcript = hello \o Space \o world
  /\ engineCall = "none"

\* C15: the keepalive callback calls stop only when capture is listening,
\* manual-stop intent is false, the running session was started more than the
\* safety ceiling ago and the last result is older than the grace interval.
C15_WatchdogGuard ==
  [][(Keepalive /\ engineCall' = "stop")
       => /\ isListening
          /\ ~isManuallyStoppedRef
          /\ now - startRequestedAt > SafetyCeiling
          /\ now - lastSpeechTimestampRef > GraceInterval]_vars

\* C16: after cancelSpeech() isSpeaking is false and no dispatch timer is
\* pending; a timer is only ever set for the utterance of a new speak() call and
\* the engine is only handed utterances whose timer was pending, so no utterance
\* requested before the cancel reaches the engine after it.
C16_CancelIsImmediate ==
  /\ [][CancelSpeech
          => (~isSpeaking' /\ speakTimers' = {} /\ synthQueue' = <<>>)]_vars
  /\ [][\A u \in speakTimers' : u \in speakTimers \/ u > speakCalls]_vars
  /\ [][\A u \in SeqRange(synthQueue') :
          u \in SeqRange(synthQueue) \/ u \in speakTimers]_vars

\* speak() then cancelSpeech(): the utterance was requested, its timer is gone
\* and the engine holds nothing
C16_Witness ==
  /\ speakCalls = 1
  /\ currentUtteranceRef = 1
  /\ speakTimeoutRef = 0
  /\ speakTimers = {}
  /\ synthQueue = <<>>
  /\ ~isSpeaking

\* C17: isSpeaking becomes true only in an utterance's onstart, and the end or
\* error callback of an utterance (any reason), speak() and cancelSpeech() each
\* leave it false.
C17_SpeakingNotStuck ==
  /\ [][(~isSpeaking /\ isSpeaking') => SynthStart]_vars
  /\ [][(SynthFinish \/ LateCallback \/ CancelSpeech \/ SpeakAny)
          => ~isSpeaking']_vars

\* the speaking utterance has failed: its error callback came, not its end
C17_Witness ==
  /\ speakCalls = 1
  /\ speakTimeoutRef = 1
  /\ currentUtteranceRef = 1
  /\ synthQueue = <<>>
  /\ synthPending = {}
  /\ speakTimers = {}
  /\ ~isSpeaking

\* C18: in every step that starts capture (isListening turns true), playback has
\* been cancelled: afterwards no utterance is speaking, none is queued in the
\* engine and no dispatch timer is pending.
C18_CaptureStartCancelsPlayback ==
  [][(~isListening /\ isListening')
       => /\ ~isSpeaking'
          /\ ~synthSpeaking'
          /\ synthQueue' = <<>>
          /\ speakTimers' = {}]_vars

\* capture was started while the first question was in the speech-output engine
C18_Witness ==
  /\ mounted
  /\ sends = 0
  /\ isListening
  /\ recState = "starting"
  /\ speakCalls = 1
  /\ synthPending = {1}
  /\ synthQueue = <<>>
  /\ speakTimers = {}
  /\ ~isSpeaking

\* C19: every step in which the interview step calls speak() starts from a state
\* where capture is not listening.
C19_SpeakOnlyWhenNotListening ==
  [][(speakCalls' # speakCalls) => ~isListening]_vars

\* handleSendMessage has sent the answer onward
Sent == ToggleRecording /\ sends' = sends + 1

\* C20: the send leaves committed text, pending text and the visible transcript
\* empty, and from then until the next tap on the main button the visible
\* transcript stays empty, whatever the engine still delivers.
C20_BufferClearedOnSend ==
  /\ [][Sent => /\ finalTranscriptRef' = Empty
                /\ interimTranscriptRef' = Empty
                /\ transcript' = Empty]_vars
  /\ [][(sends > 0 /\ isManuallyStoppedRef /\ transcript = Empty /\ ~ToggleRecording)
          => transcript' = Empty]_vars

\* C21: isListening turns from true to false only in onend or in onerror with a
\* permission code; stopListening() leaves it as it is.
C21_CallbacksDecideListening ==
  [][(isListening /\ ~isListening')
       => (EngineEnd \/ \E code \in PermissionErrors : OnError(code))]_vars

\* the keepalive callback has just called stop() and no manual stop is recorded
WatchdogStopped == engineCall = "stop" /\ ~isManuallyStoppedRef

\* C22: a stop() issued by the keepalive never ends the turn: the keepalive
\* step changes neither isListening nor any text; while neither stopListening()
\* nor a permission error occurs isListening stays true and onend changes the
\* committed text only by folding the pending interim text into it; and the
\* controller is eventually in an active session again (or a manual stop or a
\* permission error has intervened).
C22_WatchdogStopKeepsTurn ==
  /\ [][(Keepalive /\ engineCall' = "stop")
          => UNCHANGED <<isListening, isManuallyStoppedRef, transcript,
                         finalTranscriptRef, interimTranscriptRef>>]_vars
  /\ [][(isListening /\ ~isManuallyStoppedRef /\ ~StopListening
           /\ ~(\E code \in PermissionErrors : OnError(code)))
          => isListening']_vars
  /\ [][(EngineEndsReady /\ ~isManuallyStoppedRef)
          => finalTranscriptRef' =
               (IF Trim(interimTranscriptRef) # Empty
                THEN Folded(finalTranscriptRef, interimTranscriptRef)
                ELSE finalTranscriptRef)]_vars
  /\ (WatchdogStopped ~> (recState = "active" \/ isManuallyStoppedRef))

\* the watchdog has stopped an active session that is older than the ceiling
C22_Witness ==
  /\ WatchdogStopped
  /\ isListening
  /\ recState = "stopping"
  /\ recognitionStartTimeRef > 0
  /\ now - recognitionStartTimeRef > SafetyCeiling
  /\ Trim(interimTranscriptRef) # Empty

\* a span of words as the overlap loop compares it: joined, lower case, with the
\* characters . , ? ! removed
SpanKey(ws) == StripPunctuation(ToLowerCase(JoinWords(ws)))

\* the spans k for which the last k words of ew equal the first k words of iw
OverlapSpans(ew, iw) ==
  {k \in 1..Min(Min(Len(ew), Len(iw)), MaxOverlapWords) :
     SpanKey(LastWords(ew, k)) = SpanKey(FirstWords(iw, k))}

\* C23: when the incoming text does not begin with the existing text and some
\* span of at most 5 trailing words of the existing text equals the leading
\* words of the incoming text, the result begins with the existing text and its
\* words are the words of the existing text followed by the words of the
\* incoming text after the largest such span.
C23_StitchOverlap ==
  stSteps > 0 =>
    LET e == Trim(stExisting)
        i == Trim(stIncoming)
        ew == SplitWords(e)
        iw == SplitWords(i)
        ks == OverlapSpans(ew, iw)
    IN (e # Empty /\ i # Empty /\ ~IsPrefix(ToLowerCase(e), ToLowerCase(i))
          /\ ks # {})
         => LET k == CHOOSE m \in ks : \A n \in ks : n <= m
            IN /\ IsPrefix(e, stResult)
               /\ SplitWords(stResult) = ew \o RestWords(iw, k)

\* "we go go" + "go Go, on": spans of one and of two words match, two is taken
C23_Witness ==
  /\ stSteps = 1
  /\ stExisting = weGoGo
  /\ stIncoming = goGoOn
  /\ OverlapSpans(SplitWords(weGoGo), SplitWords(goGoOn)) = {1, 2}
  /\ stResult = weGoGo \o <<" ", "o", "n">>

\* the words of a text as compared: lower case, punctuation removed
WordKeys(s) ==
  LET ws == SplitWords(Trim(s))
  IN [n \in 1..Len(ws) |-> StripPunctuation(ToLowerCase(ws[n]))]

\* C28: the words of the existing text are a prefix of the words of the
\* stitched result, case and punctuation ignored.
C28_ExistingWordsKept ==
  stSteps > 0 => IsPrefix(WordKeys(stExisting), WordKeys(stResult))

\* C29: stitching the same incoming text a second time onto the result leaves
\* the result as it is, up to leading and trailing white space.
C29_StitchIdempotent ==
  [][(stSteps > 0 /\ stSteps' = stSteps + 1 /\ stIncoming' = stIncoming)
       => Trim(stResult') = Trim(stResult)]_vars

\* the words of a text
WordsOf(s) == SplitWords(Trim(s))

\* C24: a final result the engine delivers for the turn after handleSendMessage
\* requested the stop, and before onend, is contained in the text that was sent:
\* the finalized fragments delivered for the turn are among the sent words.
C24_SentAnswerComplete ==
  [][(EngineQuietResult /\ mounted /\ sends > 0 /\ isManuallyStoppedRef
        /\ recState = "stopping")
       => IsPrefix(WordsOf(JoinFragments(delivered')), WordsOf(userText))]_vars

\* C25: a result event of the stopped session that arrives after the next
\* startListening(), whose start() was swallowed as a collision, changes neither
\* the committed text nor the visible transcript of the new turn.
C25_NoCrossTurnContamination ==
  [][((EngineResult \/ EngineRedeliver) /\ recState = "stopping"
        /\ isListening /\ ~isManuallyStoppedRef)
       => UNCHANGED <<finalTranscriptRef, transcript>>]_vars

\* C26: while an utterance is speaking (its onstart was delivered, its own end
\* or error was not), isSpeaking is true and currentUtteranceRef holds that
\* utterance, whatever callbacks of earlier utterances arrive.
C26_SpeakingTracksUtterance ==
  synthSpeaking => (isSpeaking /\ currentUtteranceRef = Head(synthQueue))

\* C27: once the interview step has ended no dispatch timer is pending and no
\* utterance is queued or speaking in the engine, and speak() is not called any
\* more, whatever reply or first question arrives.
C27_NoSpeechAfterEnd ==
  /\ [](~mounted => (speakTimers = {} /\ synthQueue = <<>> /\ ~synthSpeaking))
  /\ [][~mounted => UNCHANGED speakCalls]_vars

\* the step ended while the first question was awaited; the question arrived
\* afterwards and nothing was spoken
C27_Witness ==
  /\ ~mounted
  /\ chatSession
  /\ initStage = "stopped"
  /\ speakCalls = 0
  /\ speakTimers = {}
  /\ synthQueue = <<>>

\* C30: when sendMessageWithVideo has returned the quota error for a send that
\* went to the first model of the priority list, the next send of the same
\* interview goes to the second model of the list.
C30_QuotaFallbackSwitches ==
  [][(SendMessageWithVideo /\ lastCall = "message" /\ lastReply = "quota"
        /\ servedBy = MODEL_PRIORITY_LIST[1])
       => servedBy' = MODEL_PRIORITY_LIST[2]]_vars

====
